---- MODULE Spec2Model ----
(***************************************************************************)
(* Roots fulfillment savings calculator.                                   *)
(*                                                                         *)
(* The module models                                                       *)
(*   - the cost engine calculateSavings (components/calculator-results.tsx)*)
(*     with the assumptions table of lib/assumptions.ts,                   *)
(*   - the Calculator component (its input / showResults state and the two *)
(*     handlers) and the CalculatorResults component (the active tab and   *)
(*     the ServiceBreakdown it renders),                                   *)
(*   - the report written by downloadReport / generateReport and the       *)
(*     Download Report button.                                             *)
(*                                                                         *)
(* Numbers are exact rationals [num, den] in lowest terms with den > 0, so *)
(* products, sums and the one division of the engine are computed, not     *)
(* assumed.  The rounding of IEEE doubles is not modelled.                 *)
(***************************************************************************)
EXTENDS Integers, Sequences, FiniteSets, TLC

VARIABLES
    input,          \* Calculator: useState<MerchantInput>
    showResults,    \* Calculator: useState(false)
    activePackage,  \* CalculatorResults: useState<PackageType>("fulfillment")
    rendered,       \* what the last render put on screen: {} or {results}
    event,          \* the handler that ran last
    calls,          \* engine harness: the calls of calculateSavings made, newest first
    report,         \* the document the last step saved (its lines), <<>> if none
    notification    \* the failure notice shown to the user, "none" if none

vars == <<input, showResults, activePackage, rendered, event, calls, report, notification>>

uiVars == <<input, showResults, activePackage, rendered, event, notification>>

----------------------------------------------------------------------------
(* Bounds of the explored input domain.                                    *)

MaxWarehouse == 2

MaxOrders == 2

MaxItems == 4

----------------------------------------------------------------------------
(* Exact rational arithmetic (JavaScript numbers, without rounding).       *)

Abs(x) == IF x < 0 THEN -x ELSE x

RECURSIVE GCD(_, _)
GCD(a, b) == IF b = 0 THEN a ELSE GCD(b, a % b)

Sign(x) == IF x < 0 THEN -1 ELSE IF x > 0 THEN 1 ELSE 0

\* n/d in lowest terms; a zero divisor gives what JavaScript gives:
\* [num |-> 1 or -1, den |-> 0] is +-Infinity, [num |-> 0, den |-> 0] is NaN
Rat(n, d) ==
    IF d = 0
    THEN [num |-> Sign(n), den |-> 0]
    ELSE LET s == IF d < 0 THEN -1 ELSE 1
             g == GCD(Abs(n), Abs(d))
         IN  [num |-> (s * n) \div g, den |-> (s * d) \div g]

IsFinite(a) == a.den > 0

Zero == Rat(0, 1)

Num(k) == Rat(k, 1)

RAdd(a, b) == Rat(a.num * b.den + b.num * a.den, a.den * b.den)

RSub(a, b) == Rat(a.num * b.den - b.num * a.den, a.den * b.den)

RMul(a, b) == Rat(a.num * b.num, a.den * b.den)

RDiv(a, b) == Rat(a.num * b.den, a.den * b.num)

RLt(a, b) == a.num * b.den < b.num * a.den

RLe(a, b) == a.num * b.den <= b.num * a.den

RGt(a, b) == RLt(b, a)

----------------------------------------------------------------------------
(* lib/assumptions.ts                                                      *)

DEFAULT_ASSUMPTIONS_DeliverySwapped ==
    [ storage |->
        [ costPerSqm |-> Num(12),
          merchantOverheadMultiplier |-> Rat(125, 100) ],
      handlingIn |->
        [ laborCostPerMinute |-> Rat(5, 10),
          merchantTimePerItem |-> Num(2),
          rootsTimePerItem |-> Num(1),
          rootsEfficiencyMultiplier |-> Rat(85, 100) ],
      handlingOut |->
        [ laborCostPerMinute |-> Rat(5, 10),
          merchantTimePerOrder |-> Num(5),
          rootsTimePerOrder |-> Num(3),
          rootsEfficiencyMultiplier |-> Rat(85, 100) ],
      delivery |->
        [ deliveryAmman24hrsMerchant |-> Rat(20, 10),
          deliveryAmman24hrsRoots |-> Rat(22, 10) ],
      overhead |->
        [ merchantOverheadRate |-> Rat(2, 10),
          rootsOverhead |-> Num(0) ] ]

DEFAULT_ASSUMPTIONS ==
    [ storage |->
        [ costPerSqm |-> Num(12),
          merchantOverheadMultiplier |-> Rat(125, 100) ],
      handlingIn |->
        [ laborCostPerMinute |-> Rat(5, 10),
          merchantTimePerItem |-> Num(2),
          rootsTimePerItem |-> Num(1),
          rootsEfficiencyMultiplier |-> Rat(85, 100) ],
      handlingOut |->
        [ laborCostPerMinute |-> Rat(5, 10),
          merchantTimePerOrder |-> Num(5),
          rootsTimePerOrder |-> Num(3),
          rootsEfficiencyMultiplier |-> Rat(85, 100) ],
      delivery |->
        [ deliveryAmman24hrsMerchant |-> Rat(22, 10),
          deliveryAmman24hrsRoots |-> Rat(20, 10) ],
      overhead |->
        [ merchantOverheadRate |-> Rat(2, 10),
          rootsOverhead |-> Num(0) ] ]

getAssumptions == DEFAULT_ASSUMPTIONS

----------------------------------------------------------------------------
(* components/calculator-results.tsx: packages and services                *)

PackageType == {"fulfillment", "store-pack", "sort-pack"}

ServiceType == {"storage", "handlingIn", "handlingOut", "delivery"}

PACKAGE_SERVICES ==
    [ p \in PackageType |->
        CASE p = "fulfillment" ->
               [ label |-> "Fulfillment Package",
                 description |-> "Complete end-to-end service",
                 services |-> <<"storage", "handlingIn", "handlingOut", "delivery">> ]
          [] p = "store-pack" ->
               [ label |-> "Store & Pack Package",
                 description |-> "Storage and packaging services",
                 services |-> <<"storage", "handlingIn", "handlingOut">> ]
          [] p = "sort-pack" ->
               [ label |-> "Sort & Pack Package",
                 description |-> "Sorting, packaging and delivery",
                 services |-> <<"handlingIn", "handlingOut", "delivery">> ] ]

\* Array.prototype.includes on a services list
includes(services, s) == \E i \in 1..Len(services) : services[i] = s

----------------------------------------------------------------------------
(* calculateSavings, statement by statement.  Each operator carries the    *)
(* name of the local it computes.                                          *)

MerchantInput(w, o, a) ==
    [warehouseSize |-> w, ordersPerMonth |-> o, averageItemsPerOrder |-> a]

totalItems(in) == RMul(in.ordersPerMonth, in.averageItemsPerOrder)

merchantStorage_NoMultiplier(in, packageConfig, assumptions) ==
    IF includes(packageConfig.services, "storage")
    THEN RMul(in.warehouseSize, assumptions.storage.costPerSqm)
    ELSE Zero

merchantStorage(in, packageConfig, assumptions) ==
    IF includes(packageConfig.services, "storage")
    THEN RMul(RMul(in.warehouseSize, assumptions.storage.costPerSqm),
              assumptions.storage.merchantOverheadMultiplier)
    ELSE Zero

rootsStorage_Unconditional(in, packageConfig, assumptions) ==
    RMul(in.warehouseSize, assumptions.storage.costPerSqm)

rootsStorage(in, packageConfig, assumptions) ==
    IF includes(packageConfig.services, "storage")
    THEN RMul(in.warehouseSize, assumptions.storage.costPerSqm)
    ELSE Zero

merchantHandlingIn(in, packageConfig, assumptions) ==
    IF includes(packageConfig.services, "handlingIn")
    THEN LET merchantHandlingInTime ==
                 RMul(totalItems(in), assumptions.handlingIn.merchantTimePerItem)
         IN  RMul(merchantHandlingInTime, assumptions.handlingIn.laborCostPerMinute)
    ELSE Zero

rootsHandlingIn(in, packageConfig, assumptions) ==
    IF includes(packageConfig.services, "handlingIn")
    THEN LET rootsHandlingInTime ==
                 RMul(totalItems(in), assumptions.handlingIn.rootsTimePerItem)
         IN  RMul(RMul(rootsHandlingInTime, assumptions.handlingIn.laborCostPerMinute),
                  assumptions.handlingIn.rootsEfficiencyMultiplier)
    ELSE Zero

merchantHandlingOut_PerItem(in, packageConfig, assumptions) ==
    IF includes(packageConfig.services, "handlingOut")
    THEN LET merchantHandlingOutTime ==
                 RMul(totalItems(in), assumptions.handlingOut.merchantTimePerOrder)
         IN  RMul(merchantHandlingOutTime, assumptions.handlingOut.laborCostPerMinute)
    ELSE Zero

merchantHandlingOut(in, packageConfig, assumptions) ==
    IF includes(packageConfig.services, "handlingOut")
    THEN LET merchantHandlingOutTime ==
                 RMul(in.ordersPerMonth, assumptions.handlingOut.merchantTimePerOrder)
         IN  RMul(merchantHandlingOutTime, assumptions.handlingOut.laborCostPerMinute)
    ELSE Zero

rootsHandlingOut_DiscountOnly(in, packageConfig, assumptions) ==
    IF includes(packageConfig.services, "handlingOut")
    THEN LET rootsHandlingOutTime ==
                 RMul(in.ordersPerMonth, assumptions.handlingOut.rootsTimePerOrder)
         IN  RMul(RMul(rootsHandlingOutTime, assumptions.handlingOut.laborCostPerMinute),
                  RSub(assumptions.handlingOut.rootsEfficiencyMultiplier, Num(1)))
    ELSE Zero

rootsHandlingOut(in, packageConfig, assumptions) ==
    IF includes(packageConfig.services, "handlingOut")
    THEN LET rootsHandlingOutTime ==
                 RMul(in.ordersPerMonth, assumptions.handlingOut.rootsTimePerOrder)
         IN  RMul(RMul(rootsHandlingOutTime, assumptions.handlingOut.laborCostPerMinute),
                  assumptions.handlingOut.rootsEfficiencyMultiplier)
    ELSE Zero

merchantDelivery(in, packageConfig, assumptions) ==
    IF includes(packageConfig.services, "delivery")
    THEN RMul(in.ordersPerMonth, assumptions.delivery.deliveryAmman24hrsMerchant)
    ELSE Zero

rootsDelivery_PackageRate(in, packageConfig, assumptions) ==
    IF includes(packageConfig.services, "delivery")
    THEN IF includes(packageConfig.services, "storage")
         THEN RMul(in.ordersPerMonth, assumptions.delivery.deliveryAmman24hrsRoots)
         ELSE RMul(in.ordersPerMonth, assumptions.delivery.deliveryAmman24hrsMerchant)
    ELSE Zero

rootsDelivery(in, packageConfig, assumptions) ==
    IF includes(packageConfig.services, "delivery")
    THEN RMul(in.ordersPerMonth, assumptions.delivery.deliveryAmman24hrsRoots)
    ELSE Zero

merchantOverhead_WithoutDelivery(mStorage, mHandlingIn, mHandlingOut, mDelivery, assumptions) ==
    RMul(RAdd(RAdd(mStorage, mHandlingIn), mHandlingOut),
         assumptions.overhead.merchantOverheadRate)

merchantOverhead(mStorage, mHandlingIn, mHandlingOut, mDelivery, assumptions) ==
    RMul(RAdd(RAdd(RAdd(mStorage, mHandlingIn), mHandlingOut), mDelivery),
         assumptions.overhead.merchantOverheadRate)

merchantTotal_NoOverhead(mStorage, mHandlingIn, mHandlingOut, mDelivery, mOverhead) ==
    RAdd(RAdd(RAdd(mStorage, mHandlingIn), mHandlingOut), mDelivery)

merchantTotal(mStorage, mHandlingIn, mHandlingOut, mDelivery, mOverhead) ==
    RAdd(RAdd(RAdd(RAdd(mStorage, mHandlingIn), mHandlingOut), mDelivery), mOverhead)

rootsOverhead(assumptions) == assumptions.overhead.rootsOverhead

rootsTotal(rStorage, rHandlingIn, rHandlingOut, rDelivery, rOverhead) ==
    RAdd(RAdd(RAdd(RAdd(rStorage, rHandlingIn), rHandlingOut), rDelivery), rOverhead)

monthlySavings_Swapped(mTotal, rTotal) == RSub(rTotal, mTotal)

monthlySavings(mTotal, rTotal) == RSub(mTotal, rTotal)

yearlySavings(monthly) == RMul(monthly, Num(12))

savingsPercentage_Unguarded(monthly, mTotal) ==
    RMul(RDiv(monthly, mTotal), Num(100))

savingsPercentage(monthly, mTotal) ==
    IF RGt(mTotal, Zero) THEN RMul(RDiv(monthly, mTotal), Num(100)) ELSE Zero

calculateSavings(in, packageType) ==
    LET packageConfig == PACKAGE_SERVICES[packageType]
        assumptions == getAssumptions
        mStorage == merchantStorage(in, packageConfig, assumptions)
        rStorage == rootsStorage(in, packageConfig, assumptions)
        mHandlingIn == merchantHandlingIn(in, packageConfig, assumptions)
        rHandlingIn == rootsHandlingIn(in, packageConfig, assumptions)
        mHandlingOut == merchantHandlingOut(in, packageConfig, assumptions)
        rHandlingOut == rootsHandlingOut(in, packageConfig, assumptions)
        mDelivery == merchantDelivery(in, packageConfig, assumptions)
        rDelivery == rootsDelivery(in, packageConfig, assumptions)
        mOverhead == merchantOverhead(mStorage, mHandlingIn, mHandlingOut, mDelivery, assumptions)
        mTotal == merchantTotal(mStorage, mHandlingIn, mHandlingOut, mDelivery, mOverhead)
        rOverhead == rootsOverhead(assumptions)
        rTotal == rootsTotal(rStorage, rHandlingIn, rHandlingOut, rDelivery, rOverhead)
        monthly == monthlySavings(mTotal, rTotal)
        yearly == yearlySavings(monthly)
        percentage == savingsPercentage(monthly, mTotal)
    IN  [ merchantCost |->
            [ storage |-> mStorage, handlingIn |-> mHandlingIn,
              handlingOut |-> mHandlingOut, delivery |-> mDelivery,
              overhead |-> mOverhead, total |-> mTotal ],
          rootsCost |->
            [ storage |-> rStorage, handlingIn |-> rHandlingIn,
              handlingOut |-> rHandlingOut, delivery |-> rDelivery,
              overhead |-> rOverhead, total |-> rTotal ],
          savings |->
            [ monthly |-> monthly, yearly |-> yearly, percentage |-> percentage ],
          packageConfig |-> packageConfig ]

----------------------------------------------------------------------------
(* The report.  A report is the sequence of the lines written, each        *)
(* [kind, label, text, values]: values are the numbers printed on the      *)
(* line, each as the decimal number its formatted text denotes.  Page      *)
(* breaks and line positions of the PDF are not modelled: they move lines, *)
(* they neither add, drop nor reorder them.                                *)

\* x rounded to a multiple of 1/scale, ties away from zero
RoundTo(x, scale) ==
    LET n == Abs(x.num) * scale
        q == (2 * n + x.den) \div (2 * x.den)
    IN  Rat(Sign(x.num) * q, scale)

\* Number.prototype.toLocaleString("en-US", { maximumFractionDigits: 2 })
toLocaleString2(x) == RoundTo(x, 100)

\* Number.prototype.toLocaleString(): at most 3 fraction digits
toLocaleString(x) == RoundTo(x, 1000)

\* Number.prototype.toFixed(1)
toFixed1(x) == RoundTo(x, 10)

Line(kind, label, text, values) ==
    [kind |-> kind, label |-> label, text |-> text, values |-> values]

ServiceTitle ==
    [ s \in ServiceType |->
        CASE s = "storage" -> "Storage:"
          [] s = "handlingIn" -> "Handling In:"
          [] s = "handlingOut" -> "Handling Out:"
          [] s = "delivery" -> "Delivery:" ]

titleLines ==
    << Line("title", "ROOTS FULFILLMENT SAVINGS CALCULATOR REPORT", "", <<>>),
       Line("title", "Generated:", "", <<>>) >>

businessInputLines(in, packageConfig) ==
    << Line("section", "BUSINESS INPUTS", "", <<>>),
       Line("line", "Warehouse Size:", "sqm", <<toLocaleString(in.warehouseSize)>>),
       Line("line", "Orders per Month:", "", <<toLocaleString(in.ordersPerMonth)>>),
       Line("line", "Average Items per Order:", "", <<toFixed1(in.averageItemsPerOrder)>>),
       Line("line", "Package Selected:", packageConfig.label, <<>>) >>

costBreakdownHeading == << Line("section", "COST BREAKDOWN", "", <<>>) >>

serviceBlock_Always(s, results) ==
    LET savings == RSub(results.merchantCost[s], results.rootsCost[s])
        savingsPct ==
            IF RGt(results.merchantCost[s], Zero)
            THEN toFixed1(RMul(RDiv(savings, results.merchantCost[s]), Num(100)))
            ELSE Zero
    IN  << Line("service", ServiceTitle[s], "", <<>>),
           Line("line", "Your Cost:", "", <<toLocaleString2(results.merchantCost[s])>>),
           Line("line", "Roots Cost:", "", <<toLocaleString2(results.rootsCost[s])>>),
           Line("line", "Savings:", "", <<toLocaleString2(savings), savingsPct>>) >>

\* the block of one service; the functions repeat it for each of the four
serviceBlock(s, results) ==
    IF includes(results.packageConfig.services, s)
    THEN LET savings == RSub(results.merchantCost[s], results.rootsCost[s])
             savingsPct ==
                 IF RGt(results.merchantCost[s], Zero)
                 THEN toFixed1(RMul(RDiv(savings, results.merchantCost[s]), Num(100)))
                 ELSE Zero
         IN  << Line("service", ServiceTitle[s], "", <<>>),
                Line("line", "Your Cost:", "", <<toLocaleString2(results.merchantCost[s])>>),
                Line("line", "Roots Cost:", "", <<toLocaleString2(results.rootsCost[s])>>),
                Line("line", "Savings:", "", <<toLocaleString2(savings), savingsPct>>) >>
    ELSE <<>>

overheadLines(results) ==
    << Line("section", "Overhead:", "", <<>>),
       Line("line", "Your Cost:", "", <<toLocaleString2(results.merchantCost.overhead)>>),
       Line("line", "Roots Cost:", "", <<toLocaleString2(results.rootsCost.overhead)>>) >>

totalCostLines(results) ==
    << Line("section", "TOTAL COSTS", "", <<>>),
       Line("line", "Your Total Monthly Cost:", "", <<toLocaleString2(results.merchantCost.total)>>),
       Line("line", "Roots Total Monthly Cost:", "", <<toLocaleString2(results.rootsCost.total)>>) >>

savingsSummaryLines(results) ==
    << Line("section", "SAVINGS SUMMARY", "", <<>>),
       Line("line", "Monthly Savings:", "", <<toLocaleString2(results.savings.monthly)>>),
       Line("line", "Yearly Savings:", "", <<toLocaleString2(results.savings.yearly)>>),
       Line("line", "Savings Percentage:", "", <<toFixed1(results.savings.percentage)>>) >>

footerLines ==
    << Line("footer", "For more information, visit:", "https://roots-jo.co/", <<>>),
       Line("footer", "Contact us:", "https://roots-jo.co/#contact", <<>>) >>

\* the plain-text report (a function that no component calls)
generateReport(in, packageType, results) ==
    LET packageConfig == PACKAGE_SERVICES[packageType]
    IN  titleLines
        \o businessInputLines(in, packageConfig)
        \o costBreakdownHeading
        \o serviceBlock("storage", results)
        \o serviceBlock("handlingIn", results)
        \o serviceBlock("handlingOut", results)
        \o serviceBlock("delivery", results)
        \o overheadLines(results)
        \o totalCostLines(results)
        \o savingsSummaryLines(results)
        \o footerLines

downloadReport_TotalsFirst(in, packageType, results) ==
    LET packageConfig == PACKAGE_SERVICES[packageType]
    IN  titleLines
        \o businessInputLines(in, packageConfig)
        \o totalCostLines(results)
        \o costBreakdownHeading
        \o serviceBlock("storage", results)
        \o serviceBlock("handlingIn", results)
        \o serviceBlock("handlingOut", results)
        \o serviceBlock("delivery", results)
        \o overheadLines(results)
        \o savingsSummaryLines(results)
        \o footerLines

\* the PDF report of the Download Report button: the lines given to doc.text,
\* in the order of the calls, up to doc.save
downloadReport(in, packageType, results) ==
    LET packageConfig == PACKAGE_SERVICES[packageType]
    IN  titleLines
        \o businessInputLines(in, packageConfig)
        \o costBreakdownHeading
        \o serviceBlock("storage", results)
        \o serviceBlock("handlingIn", results)
        \o serviceBlock("handlingOut", results)
        \o serviceBlock("delivery", results)
        \o overheadLines(results)
        \o totalCostLines(results)
        \o savingsSummaryLines(results)
        \o footerLines

----------------------------------------------------------------------------
(* The explored values of the three fields: negative, zero, fractional and *)
(* the values of the documented scenario (500 sqm, 1000 orders, 2 items).  *)

WarehouseValues == { Num(250 * k) : k \in -1..MaxWarehouse }

OrdersValues == { Num(500 * k) : k \in -1..MaxOrders }

ItemsValues == { Rat(k, 2) : k \in -1..MaxItems }

Fields == {"warehouseSize", "ordersPerMonth", "averageItemsPerOrder"}

FieldValues(field) ==
    CASE field = "warehouseSize" -> WarehouseValues
      [] field = "ordersPerMonth" -> OrdersValues
      [] field = "averageItemsPerOrder" -> ItemsValues

Inputs ==
    { MerchantInput(w, o, a) : w \in WarehouseValues, o \in OrdersValues, a \in ItemsValues }

----------------------------------------------------------------------------
(* Engine harness: calculateSavings applied to any input and package, and  *)
(* then once more, so that two results can be compared.                    *)

Call(in, packageType) ==
    [input |-> in, packageType |-> packageType, results |-> calculateSavings(in, packageType)]

InitialInput == MerchantInput(Zero, Zero, Zero)

Init ==
    /\ input = InitialInput
    /\ showResults = FALSE
    /\ activePackage = "fulfillment"
    /\ rendered = {}
    /\ event = "init"
    /\ calls = <<>>
    /\ report = <<>>
    /\ notification = "none"

\* a first call, with any input and package
Invoke ==
    /\ calls = <<>>
    /\ \E in \in Inputs, packageType \in PackageType :
          calls' = <<Call(in, packageType)>>
    /\ report' = <<>>
    /\ UNCHANGED uiVars

\* a second call, for any package and any ordersPerMonth, the other two
\* fields held fixed
InvokeAgain ==
    /\ Len(calls) = 1
    /\ \E o \in OrdersValues, packageType \in PackageType :
          calls' = <<Call([calls[1].input EXCEPT !.ordersPerMonth = o], packageType),
                     calls[1]>>
    /\ report' = <<>>
    /\ UNCHANGED uiVars

\* the report of the latest call
ExportReport ==
    /\ Len(calls) >= 1
    /\ report = <<>>
    /\ report' = downloadReport(calls[1].input, calls[1].packageType, calls[1].results)
    /\ UNCHANGED <<calls, uiVars>>

NextEngine ==
    \/ Invoke
    \/ InvokeAgain
    \/ ExportReport

SpecEngine == Init /\ [][NextEngine]_vars

----------------------------------------------------------------------------
(* The Calculator and CalculatorResults components.                        *)

\* The text of an <input type="number">: <<>> is the empty string (a blank or
\* unparsable field), <<v>> is a numeral that denotes v.
Texts(field) == {<<>>} \cup { <<v>> : v \in FieldValues(field) }

NaN == Rat(0, 0)

\* Number.parseFloat
parseFloat(text) == IF text = <<>> THEN NaN ELSE text[1]

\* x || 0
OrZero(x) == IF x = NaN \/ x = Zero THEN Zero ELSE x

\* CalculatorResults renders the placeholder card while showResults is false,
\* and otherwise the ServiceBreakdown of the active tab, which calls the engine.
ServiceBreakdown(packageType, in) == calculateSavings(in, packageType)

CalculatorResults_FirstTab(in, show, active) ==
    IF ~show THEN {} ELSE {ServiceBreakdown("fulfillment", in)}

CalculatorResults(in, show, active) ==
    IF ~show THEN {} ELSE {ServiceBreakdown(active, in)}

handleCalculate_AnyField ==
    /\ showResults' =
         IF \/ RGt(input.warehouseSize, Zero)
            \/ RGt(input.ordersPerMonth, Zero)
            \/ RGt(input.averageItemsPerOrder, Zero)
         THEN TRUE ELSE showResults
    /\ UNCHANGED <<input, activePackage, calls>>
    /\ rendered' = CalculatorResults(input', showResults', activePackage')
    /\ event' = "handleCalculate"
    /\ report' = <<>>
    /\ UNCHANGED notification

handleCalculate ==
    /\ showResults' =
         IF /\ RGt(input.warehouseSize, Zero)
            /\ RGt(input.ordersPerMonth, Zero)
            /\ RGt(input.averageItemsPerOrder, Zero)
         THEN TRUE ELSE showResults
    /\ UNCHANGED <<input, activePackage, calls>>
    /\ rendered' = CalculatorResults(input', showResults', activePackage')
    /\ event' = "handleCalculate"
    /\ report' = <<>>
    /\ UNCHANGED notification

handleInputChange_KeepResults(field, value) ==
    LET numValue == OrZero(parseFloat(value))
    IN  /\ input' = [input EXCEPT ![field] = numValue]
        /\ UNCHANGED <<showResults, activePackage, calls>>
        /\ rendered' = CalculatorResults(input', showResults', activePackage')
        /\ event' = "handleInputChange"
        /\ report' = <<>>
        /\ UNCHANGED notification

handleInputChange(field, value) ==
    LET numValue == OrZero(parseFloat(value))
    IN  /\ input' = [input EXCEPT ![field] = numValue]
        /\ showResults' = FALSE
        /\ UNCHANGED <<activePackage, calls>>
        /\ rendered' = CalculatorResults(input', showResults', activePackage')
        /\ event' = "handleInputChange"
        /\ report' = <<>>
        /\ UNCHANGED notification

setActivePackage_NoRerender(value) ==
    /\ showResults
    /\ activePackage' = value
    /\ UNCHANGED <<input, showResults, calls, rendered>>
    /\ event' = "setActivePackage"
    /\ report' = <<>>
    /\ UNCHANGED notification

\* onValueChange of the tabs, which exist only in the results view
setActivePackage(value) ==
    /\ showResults
    /\ activePackage' = value
    /\ UNCHANGED <<input, showResults, calls>>
    /\ rendered' = CalculatorResults(input', showResults', activePackage')
    /\ event' = "setActivePackage"
    /\ report' = <<>>
    /\ UNCHANGED notification

\* onClick of the Download Report button of the ServiceBreakdown on screen.
\* jsPDF may throw (new jsPDF, doc.text, doc.save); nothing catches it, so the
\* handler ends there: no state is set and no notice is shown.
downloadReportClick ==
    /\ showResults
    /\ \E results \in rendered : \E ok \in BOOLEAN :
          IF ok
          THEN /\ report' = downloadReport(input, activePackage, results)
               /\ event' = "downloadReport"
          ELSE /\ report' = <<>>
               /\ event' = "downloadReportFailed"
    /\ UNCHANGED <<input, showResults, activePackage, rendered, calls, notification>>

InputChange == \E field \in Fields : \E value \in Texts(field) : handleInputChange(field, value)

TabChange == \E value \in PackageType : setActivePackage(value)

Next ==
    \/ handleCalculate
    \/ InputChange
    \/ TabChange
    \/ downloadReportClick

Spec == Init /\ [][Next]_vars

----------------------------------------------------------------------------
(* Vocabulary of the properties.                                           *)

CallIndex == 1..Len(calls)

NonNegative(in) ==
    /\ RLe(Zero, in.warehouseSize)
    /\ RLe(Zero, in.ordersPerMonth)
    /\ RLe(Zero, in.averageItemsPerOrder)

AllPositive(in) ==
    /\ RGt(in.warehouseSize, Zero)
    /\ RGt(in.ordersPerMonth, Zero)
    /\ RGt(in.averageItemsPerOrder, Zero)

ServicesOf(packageType) ==
    { s \in ServiceType : includes(PACKAGE_SERVICES[packageType].services, s) }

\* the sum of a cost record over a set of services, taken service by service
RECURSIVE SumOver(_, _)
SumOver(cost, services) ==
    IF services = {} THEN Zero
    ELSE LET s == CHOOSE x \in services : TRUE
         IN  RAdd(cost[s], SumOver(cost, services \ {s}))

----------------------------------------------------------------------------
\* C1: for every non-negative input and each package, merchantCost.total is
\* storage + handlingIn + handlingOut + delivery + overhead of the merchant,
\* and rootsCost.total is the same sum over the Roots costs.
C1_TotalIsSumPlusOverhead ==
    \A i \in CallIndex :
        NonNegative(calls[i].input) =>
            LET r == calls[i].results
            IN  /\ r.merchantCost.total =
                     RAdd(SumOver(r.merchantCost, ServiceType), r.merchantCost.overhead)
                /\ r.rootsCost.total =
                     RAdd(SumOver(r.rootsCost, ServiceType), r.rootsCost.overhead)

C1_Witness ==
    \E i \in CallIndex :
        /\ NonNegative(calls[i].input)
        /\ RGt(calls[i].results.merchantCost.overhead, Zero)
        /\ RGt(calls[i].results.rootsCost.total, Zero)

\* C2: a service that is not in the package's service list (storage for
\* sort-pack, delivery for store-pack) costs exactly 0 for the merchant and
\* for Roots.
C2_ExcludedServiceCostsZero ==
    \A i \in CallIndex : \A s \in ServiceType \ ServicesOf(calls[i].packageType) :
        /\ calls[i].results.merchantCost[s] = Zero
        /\ calls[i].results.rootsCost[s] = Zero

C2_Witness ==
    \E i \in CallIndex :
        /\ calls[i].packageType = "sort-pack"
        /\ RGt(calls[i].input.warehouseSize, Zero)
        /\ calls[i].results.rootsCost.storage = Zero

\* C3: for identical input, a service included in two packages has the same
\* merchant cost and the same Roots cost in the results for both packages.
C3_SharedServiceSameCost ==
    (Len(calls) = 2 /\ calls[1].input = calls[2].input) =>
        \A s \in ServicesOf(calls[1].packageType) \cap ServicesOf(calls[2].packageType) :
            /\ calls[1].results.merchantCost[s] = calls[2].results.merchantCost[s]
            /\ calls[1].results.rootsCost[s] = calls[2].results.rootsCost[s]

C3_Witness ==
    /\ Len(calls) = 2
    /\ calls[1].input = calls[2].input
    /\ calls[1].packageType = "sort-pack"
    /\ calls[2].packageType = "fulfillment"
    /\ AllPositive(calls[1].input)
    /\ calls[1].results.merchantCost.total # calls[2].results.merchantCost.total

\* C4: savings.monthly = merchantCost.total - rootsCost.total and
\* savings.yearly = 12 x savings.monthly.
C4_MonthlyAndYearlySavings ==
    \A i \in CallIndex :
        LET r == calls[i].results
        IN  /\ r.savings.monthly = RSub(r.merchantCost.total, r.rootsCost.total)
            /\ r.savings.yearly = RMul(Num(12), r.savings.monthly)

C4_Witness ==
    \E i \in CallIndex :
        /\ RGt(calls[i].results.savings.monthly, Zero)
        /\ RGt(calls[i].results.rootsCost.total, Zero)

\* C5 as stated: for every input, negative ones included, savings.percentage
\* is 0 whenever merchantCost.total = 0 and otherwise is
\* 100 x savings.monthly / merchantCost.total, and nothing is divided by zero.
C5_Original ==
    \A i \in CallIndex :
        LET r == calls[i].results
        IN  /\ IsFinite(r.savings.percentage)
            /\ r.savings.percentage =
                 IF r.merchantCost.total = Zero
                 THEN Zero
                 ELSE RDiv(RMul(Num(100), r.savings.monthly), r.merchantCost.total)

\* C5 as amended: savings.percentage is 0 whenever merchantCost.total <= 0
\* (which a negative input can make negative) and is
\* 100 x savings.monthly / merchantCost.total whenever merchantCost.total > 0;
\* nothing is divided by zero, so the percentage is always a finite number.
C5_PercentageGuarded ==
    \A i \in CallIndex :
        LET r == calls[i].results
        IN  /\ IsFinite(r.savings.percentage)
            /\ r.savings.percentage =
                 IF RLe(r.merchantCost.total, Zero)
                 THEN Zero
                 ELSE RDiv(RMul(Num(100), r.savings.monthly), r.merchantCost.total)

C5_Witness ==
    /\ Len(calls) = 2
    /\ RLt(calls[1].results.merchantCost.total, Zero)
    /\ calls[1].results.savings.monthly # Zero
    /\ calls[1].results.savings.percentage = Zero
    /\ RGt(calls[2].results.merchantCost.total, Zero)
    /\ RGt(calls[2].results.savings.percentage, Zero)

\* C6: of two non-negative inputs that differ only in ordersPerMonth, with
\* the same package, the one with the larger ordersPerMonth has handling-out
\* and delivery costs that are not smaller, for the merchant and for Roots.
C6_MonotoneInOrders ==
    ( /\ Len(calls) = 2
      /\ calls[1].packageType = calls[2].packageType
      /\ NonNegative(calls[1].input)
      /\ NonNegative(calls[2].input)
      /\ calls[1].input.warehouseSize = calls[2].input.warehouseSize
      /\ calls[1].input.averageItemsPerOrder = calls[2].input.averageItemsPerOrder
      /\ RLe(calls[2].input.ordersPerMonth, calls[1].input.ordersPerMonth) ) =>
        /\ RLe(calls[2].results.merchantCost.handlingOut, calls[1].results.merchantCost.handlingOut)
        /\ RLe(calls[2].results.rootsCost.handlingOut, calls[1].results.rootsCost.handlingOut)
        /\ RLe(calls[2].results.merchantCost.delivery, calls[1].results.merchantCost.delivery)
        /\ RLe(calls[2].results.rootsCost.delivery, calls[1].results.rootsCost.delivery)

C6_Witness ==
    /\ Len(calls) = 2
    /\ calls[1].packageType = "fulfillment"
    /\ calls[2].packageType = "fulfillment"
    /\ NonNegative(calls[1].input)
    /\ NonNegative(calls[2].input)
    /\ RLt(calls[2].input.ordersPerMonth, calls[1].input.ordersPerMonth)
    /\ RLt(calls[2].results.rootsCost.handlingOut, calls[1].results.rootsCost.handlingOut)
    /\ RLt(calls[2].results.merchantCost.delivery, calls[1].results.merchantCost.delivery)

ScenarioInput == MerchantInput(Num(500), Num(1000), Num(2))

\* C7: with the default assumptions, warehouseSize=500, ordersPerMonth=1000,
\* averageItemsPerOrder=2 and package fulfillment give merchant storage 7500,
\* handling-in 2000, handling-out 2500, delivery 2200, overhead 2840, total
\* 17040; Roots storage 6000, handling-in 850, handling-out 1275, delivery
\* 2000, overhead 0, total 10125; monthly savings 6915, yearly savings 82980
\* and a savings percentage of 40.58 to two decimals.
C7_DocumentedScenario ==
    \A i \in CallIndex :
        (calls[i].input = ScenarioInput /\ calls[i].packageType = "fulfillment") =>
            LET r == calls[i].results
            IN  /\ r.merchantCost =
                     [ storage |-> Num(7500), handlingIn |-> Num(2000),
                       handlingOut |-> Num(2500), delivery |-> Num(2200),
                       overhead |-> Num(2840), total |-> Num(17040) ]
                /\ r.rootsCost =
                     [ storage |-> Num(6000), handlingIn |-> Num(850),
                       handlingOut |-> Num(1275), delivery |-> Num(2000),
                       overhead |-> Num(0), total |-> Num(10125) ]
                /\ r.savings.monthly = Num(6915)
                /\ r.savings.yearly = Num(82980)
                /\ RLe(Rat(40575, 1000), r.savings.percentage)
                /\ RLt(r.savings.percentage, Rat(40585, 1000))

C7_Witness ==
    \E i \in CallIndex :
        /\ calls[i].input = ScenarioInput
        /\ calls[i].packageType = "fulfillment"
        /\ calls[i].results.savings.yearly = Num(82980)

\* C8: a Calculate click while any of the three fields is 0 leaves the
\* results hidden, and results are shown (showResults is true, the engine's
\* result is on screen) only while all three fields are greater than 0.
C8_ResultsOnlyForPositiveInput ==
    /\ []((showResults \/ rendered # {}) => AllPositive(input))
    /\ [][ ( /\ event' = "handleCalculate"
             /\ \E field \in Fields : input[field] = Zero )
           => (~showResults' /\ rendered' = {}) ]_vars

C8_Witness ==
    /\ event = "handleCalculate"
    /\ input.warehouseSize = Zero
    /\ RGt(input.ordersPerMonth, Zero)
    /\ RGt(input.averageItemsPerOrder, Zero)
    /\ ~showResults
    /\ rendered = {}

\* C9: each included service's cost equals the reference formula: storage is
\* warehouseSize x costPerSqm x merchantOverheadMultiplier for the merchant
\* and warehouseSize x costPerSqm for Roots; handling-in is
\* (ordersPerMonth x averageItemsPerOrder) x timePerItem x laborCostPerMinute,
\* times rootsEfficiencyMultiplier for Roots; handling-out is the same shape
\* over ordersPerMonth with the per-order times, independent of
\* averageItemsPerOrder; delivery is ordersPerMonth x the party's flat rate.
C9_ReferenceFormulas ==
    \A i \in CallIndex :
        LET in == calls[i].input
            r == calls[i].results
            a == DEFAULT_ASSUMPTIONS
            included == ServicesOf(calls[i].packageType)
            items == RMul(in.ordersPerMonth, in.averageItemsPerOrder)
        IN  /\ "storage" \in included =>
                 /\ r.merchantCost.storage =
                      RMul(in.warehouseSize,
                           RMul(a.storage.costPerSqm, a.storage.merchantOverheadMultiplier))
                 /\ r.rootsCost.storage = RMul(in.warehouseSize, a.storage.costPerSqm)
            /\ "handlingIn" \in included =>
                 /\ r.merchantCost.handlingIn =
                      RMul(items, RMul(a.handlingIn.merchantTimePerItem,
                                       a.handlingIn.laborCostPerMinute))
                 /\ r.rootsCost.handlingIn =
                      RMul(items, RMul(a.handlingIn.rootsTimePerItem,
                                       RMul(a.handlingIn.laborCostPerMinute,
                                            a.handlingIn.rootsEfficiencyMultiplier)))
            /\ "handlingOut" \in included =>
                 /\ r.merchantCost.handlingOut =
                      RMul(in.ordersPerMonth, RMul(a.handlingOut.merchantTimePerOrder,
                                                   a.handlingOut.laborCostPerMinute))
                 /\ r.rootsCost.handlingOut =
                      RMul(in.ordersPerMonth, RMul(a.handlingOut.rootsTimePerOrder,
                                                   RMul(a.handlingOut.laborCostPerMinute,
                                                        a.handlingOut.rootsEfficiencyMultiplier)))
            /\ "delivery" \in included =>
                 /\ r.merchantCost.delivery =
                      RMul(in.ordersPerMonth, a.delivery.deliveryAmman24hrsMerchant)
                 /\ r.rootsCost.delivery =
                      RMul(in.ordersPerMonth, a.delivery.deliveryAmman24hrsRoots)

C9_Witness ==
    \E i \in CallIndex :
        /\ calls[i].packageType = "fulfillment"
        /\ RGt(calls[i].input.warehouseSize, Zero)
        /\ RGt(calls[i].input.ordersPerMonth, Zero)
        /\ RGt(calls[i].input.averageItemsPerOrder, Num(1))
        /\ calls[i].results.merchantCost.handlingOut # calls[i].results.merchantCost.handlingIn

\* C10: merchantCost.overhead is (the sum of the merchant's included-service
\* costs) x merchantOverheadRate, and rootsCost.overhead is the rootsOverhead
\* constant of the assumptions table whatever the input and the package.
C10_Overhead ==
    \A i \in CallIndex :
        LET r == calls[i].results
        IN  /\ r.merchantCost.overhead =
                 RMul(SumOver(r.merchantCost, ServicesOf(calls[i].packageType)),
                      DEFAULT_ASSUMPTIONS.overhead.merchantOverheadRate)
            /\ r.rootsCost.overhead = DEFAULT_ASSUMPTIONS.overhead.rootsOverhead

C10_Witness ==
    \E i \in CallIndex :
        /\ calls[i].packageType = "sort-pack"
        /\ RGt(calls[i].input.ordersPerMonth, Zero)
        /\ RGt(calls[i].input.warehouseSize, Zero)
        /\ RGt(calls[i].results.merchantCost.delivery, Zero)
        /\ RGt(calls[i].results.merchantCost.overhead, Zero)

\* C15: last input wins: whenever results are displayed, the displayed
\* figures are calculateSavings of the current input and of the package of
\* the active tab; no result of an earlier input or package stays on screen.
C15_DisplayedIsCurrent ==
    /\ showResults => rendered = {calculateSavings(input, activePackage)}
    /\ ~showResults => rendered = {}

C15_Witness ==
    /\ showResults
    /\ event = "setActivePackage"
    /\ activePackage = "sort-pack"
    /\ input = ScenarioInput
    /\ rendered = {calculateSavings(ScenarioInput, "sort-pack")}

\* C16 as stated: each user interaction, an input edit as well as a package
\* tab switch, is followed by a fresh recomputation of the result from the
\* current input and the selected package.
C16_Original ==
    event \in {"handleInputChange", "setActivePackage"} =>
        rendered = {calculateSavings(input, activePackage)}

\* C16 as amended: a package tab switch, and a Calculate click made while all
\* three fields are greater than 0, is followed by a fresh recomputation of
\* the result from the current input and the selected package; an input edit
\* hides the results and computes nothing.
C16_RecomputeOnTabAndCalculate ==
    /\ event = "setActivePackage" =>
         rendered = {calculateSavings(input, activePackage)}
    /\ (event = "handleCalculate" /\ AllPositive(input)) =>
         rendered = {calculateSavings(input, activePackage)}
    /\ event = "handleInputChange" => rendered = {}

C16_Witness ==
    /\ event = "setActivePackage"
    /\ activePackage = "store-pack"
    /\ AllPositive(input)
    /\ rendered = {calculateSavings(input, "store-pack")}
    /\ rendered # {calculateSavings(input, "fulfillment")}

ChangedFields == { field \in Fields : input'[field] # input[field] }

\* C17: every input edit sets showResults to false, also when all three
\* fields are (still) greater than 0; the results stay hidden until a
\* Calculate click made while all three fields are greater than 0; and an
\* edit changes at most the edited field of the input, and no other state.
C17_EditHidesResults ==
    /\ [](event = "handleInputChange" => (~showResults /\ rendered = {}))
    /\ [][ event' = "handleInputChange" =>
             /\ Cardinality(ChangedFields) <= 1
             /\ activePackage' = activePackage ]_vars
    /\ [][ (~showResults /\ showResults') =>
             /\ event' = "handleCalculate"
             /\ AllPositive(input)
             /\ input' = input ]_vars

C17_Witness ==
    /\ event = "handleInputChange"
    /\ AllPositive(input)
    /\ activePackage # "fulfillment"
    /\ ~showResults
    /\ rendered = {}

\* C18: with the default assumptions, for every non-negative input and every
\* package, each Roots service cost is at most the merchant cost of the same
\* service, savings.monthly is at least 0 and savings.percentage lies
\* between 0 and 100 inclusive.
C18_RootsNeverDearer ==
    \A i \in CallIndex :
        NonNegative(calls[i].input) =>
            LET r == calls[i].results
            IN  /\ \A s \in ServiceType : RLe(r.rootsCost[s], r.merchantCost[s])
                /\ RLe(Zero, r.savings.monthly)
                /\ RLe(Zero, r.savings.percentage)
                /\ RLe(r.savings.percentage, Num(100))

C18_Witness ==
    \E i \in CallIndex :
        /\ AllPositive(calls[i].input)
        /\ calls[i].packageType = "sort-pack"
        /\ RLt(calls[i].results.rootsCost.delivery, calls[i].results.merchantCost.delivery)
        /\ RGt(calls[i].results.savings.percentage, Zero)
        /\ RLt(calls[i].results.savings.percentage, Num(100))

----------------------------------------------------------------------------
(* Vocabulary of the report properties.                                    *)

\* the positions of the lines of a report that carry a label
IndexOf(rep, label) == { i \in 1..Len(rep) : rep[i].label = label }

\* the one line of a report that carries a label prints exactly these values
Prints(rep, label, values) ==
    /\ Cardinality(IndexOf(rep, label)) = 1
    /\ \A i \in IndexOf(rep, label) : rep[i].values = values

\* a report shows a result and nothing else: a block for each service of the
\* package and for no other, and the overhead, totals and savings of the result
FormatsResult(rep, packageType, r) ==
    /\ \A s \in ServicesOf(packageType) :
         LET m == r.merchantCost[s]
             difference == RSub(m, r.rootsCost[s])
             percent == IF RGt(m, Zero)
                        THEN toFixed1(RDiv(RMul(Num(100), difference), m))
                        ELSE Zero
         IN  /\ Cardinality(IndexOf(rep, ServiceTitle[s])) = 1
             /\ \A i \in IndexOf(rep, ServiceTitle[s]) :
                  /\ i + 3 <= Len(rep)
                  /\ rep[i + 1].values = <<toLocaleString2(m)>>
                  /\ rep[i + 2].values = <<toLocaleString2(r.rootsCost[s])>>
                  /\ rep[i + 3].values = <<toLocaleString2(difference), percent>>
    /\ \A s \in ServiceType \ ServicesOf(packageType) :
         IndexOf(rep, ServiceTitle[s]) = {}
    /\ Cardinality(IndexOf(rep, "Overhead:")) = 1
    /\ \A i \in IndexOf(rep, "Overhead:") :
         /\ rep[i + 1].values = <<toLocaleString2(r.merchantCost.overhead)>>
         /\ rep[i + 2].values = <<toLocaleString2(r.rootsCost.overhead)>>
    /\ Prints(rep, "Your Total Monthly Cost:", <<toLocaleString2(r.merchantCost.total)>>)
    /\ Prints(rep, "Roots Total Monthly Cost:", <<toLocaleString2(r.rootsCost.total)>>)
    /\ Prints(rep, "Monthly Savings:", <<toLocaleString2(r.savings.monthly)>>)
    /\ Prints(rep, "Yearly Savings:", <<toLocaleString2(r.savings.yearly)>>)
    /\ Prints(rep, "Savings Percentage:", <<toFixed1(r.savings.percentage)>>)

\* C12: the exported report only formats the result it is given: for each
\* service of the package and for no other it shows the result's merchant
\* cost, Roots cost, their difference and the difference as a percentage of
\* the merchant cost (0.0 when that cost is not greater than 0); overhead,
\* totals and savings summary are the result's fields, formatted.
C12_ReportFormatsResult ==
    report # <<>> =>
        /\ FormatsResult(report, calls[1].packageType, calls[1].results)
        /\ FormatsResult(generateReport(calls[1].input, calls[1].packageType, calls[1].results),
                         calls[1].packageType, calls[1].results)

C12_Witness ==
    /\ report # <<>>
    /\ calls[1].packageType = "sort-pack"
    /\ RGt(calls[1].input.warehouseSize, Zero)
    /\ calls[1].results.merchantCost.handlingIn = Zero
    /\ RGt(calls[1].results.merchantCost.delivery, Zero)
    /\ \E i \in 1..Len(report) :
         /\ report[i].label = "Savings:"
         /\ report[i].values[2] # Zero

CanonicalOrder == <<"storage", "handlingIn", "handlingOut", "delivery">>

RECURSIVE ExpectedBlocks(_, _)
ExpectedBlocks(packageType, k) ==
    IF k > Len(CanonicalOrder) THEN <<>>
    ELSE (IF CanonicalOrder[k] \in ServicesOf(packageType)
          THEN <<ServiceTitle[CanonicalOrder[k]], "Your Cost:", "Roots Cost:", "Savings:">>
          ELSE <<>>)
         \o ExpectedBlocks(packageType, k + 1)

ExpectedLabels(packageType) ==
    << "BUSINESS INPUTS", "Warehouse Size:", "Orders per Month:",
       "Average Items per Order:", "Package Selected:", "COST BREAKDOWN" >>
    \o ExpectedBlocks(packageType, 1)
    \o << "Overhead:", "Your Cost:", "Roots Cost:",
          "TOTAL COSTS", "Your Total Monthly Cost:", "Roots Total Monthly Cost:",
          "SAVINGS SUMMARY", "Monthly Savings:", "Yearly Savings:", "Savings Percentage:",
          "For more information, visit:", "Contact us:" >>

NotTitle(line) == line.kind # "title"

\* the labels of a report after its title lines, in the order written
Labels(rep) ==
    LET body == SelectSeq(rep, NotTitle)
    IN  [ i \in 1..Len(body) |-> body[i].label ]

\* C13: the report is written in exactly this order: Business Inputs, Cost
\* Breakdown (the included services in the order storage, handling-in,
\* handling-out, delivery, each with your cost, Roots cost, savings amount
\* and percent), Overhead, Total Costs, Savings Summary (monthly, yearly,
\* percentage), then the footer lines; nothing is written twice or skipped.
C13_ReportSectionOrder ==
    report # <<>> =>
        /\ Labels(report) = ExpectedLabels(calls[1].packageType)
        /\ Labels(generateReport(calls[1].input, calls[1].packageType, calls[1].results))
             = ExpectedLabels(calls[1].packageType)
        /\ \A i \in 1..Len(report) :
             report[i].label = "Savings:" => Len(report[i].values) = 2

C13_Witness ==
    /\ report # <<>>
    /\ calls[1].packageType = "store-pack"
    /\ Len(report) = 2 + Len(ExpectedLabels("store-pack"))
    /\ Len(report) < Len(generateReport(calls[1].input, "fulfillment",
                                        calculateSavings(calls[1].input, "fulfillment")))

\* C14: when producing the report fails after a Download Report click, the
\* failure is shown to the user as a notification, and the results on screen
\* are the ones shown before the click.
C14_FailureSurfaced ==
    event = "downloadReportFailed" =>
        /\ notification # "none"
        /\ showResults
        /\ rendered = {calculateSavings(input, activePackage)}

====
